---------------------------- MODULE Spec2Model ----------------------------
(***************************************************************************)
(* A model of the set-flavoured SkipList of src/skiplist/skiplist.py.      *)
(*                                                                         *)
(* The heap of node objects is kept as four functions over node            *)
(* identities (next, prev, below, value).  A node identity is the pair     *)
(* <<key, level>> of the element it was created for and the level it was   *)
(* created at; sentinels use key 0.  Only the objects reachable from the   *)
(* container are kept: a node unlinked by remove, or a whole structure     *)
(* dropped by clear, is reclaimed.                                         *)
(*                                                                         *)
(* Elements are records [key, tag]: the comparator orders and equates      *)
(* them by key only, the tag tells apart two elements that compare equal   *)
(* (so that a replacing insert is observable).                             *)
(***************************************************************************)
EXTENDS Integers, Sequences, FiniteSets, TLC

\* ------------------------------------------------------------------ bounds
MaxKey == 2
MaxHeight == 1
\* the one key for which two distinct elements that compare equal exist
TwinKey == 1

Keys == 1..MaxKey
Tags(k) == IF k = TwinKey THEN {"a", "b"} ELSE {"a"}
Probes == 0..(MaxKey + 1)
Heights == 0..MaxHeight
\* one more outcome of the height generator, above the cap of a small list
Tall == 10
TallHeights == Heights \cup {Tall}
Indexes == (0 - MaxKey - 1)..(MaxKey + 1)
\* the bounds and the steps of a slice, <<>> standing for an omitted one
Bounds == {<<>>} \cup {<<i>> : i \in Indexes}
Steps == {<<>>} \cup {<<i>> : i \in (0 - 1)..MaxKey}
\* the removed objects a generator may keep before the next mutation
MaxGarbage == 1

\* ------------------------------------------------------------------ values
SentinelValue == [key |-> 0, tag |-> "sentinel"]
NoDefault == SentinelValue
DefaultValue == [key |-> 0, tag |-> "default"]
None == [key |-> 0, tag |-> "none"]

Elem(k, t) == [key |-> k, tag |-> t]
Elements == UNION {{Elem(k, t) : t \in Tags(k)} : k \in Keys}
ProbeValues == {Elem(k, "a") : k \in Probes}

\* ------------------------------------------------------------------- state
\* sentinels, next, prev, below, value, size: the container and its nodes
\* last: the latest call, its arguments and what it returned or raised
\* live: the elements inserted and not removed since (the abstract set)
\* comparator: the ordering the container was constructed with
\* other: the sentinels and the size of a second container, built by copy()
\*        or by slicing, whose nodes live in the same heap
\* cursor: the generator a lazy sequence is consumed through: the frame of
\*         __range with its two locals, and the values it has yielded
VARIABLES sentinels, next, prev, below, value, size, last, live, comparator, other, cursor

vars == <<sentinels, next, prev, below, value, size, last, live, comparator, other, cursor>>

\* An object is named by the key it carries, its level and the mark of the
\* container whose call created it.
Node(m, k, l) == <<k, l, m>>
Sentinel(m, l) == Node(m, 0, l)
\* the mark of the container seen in h
Mark(h) == h.sentinels[1][3]

\* a comparator with its order test turned around
le_Reversed(a, b) == a.key >= b.key

\* the comparator: the operator module applied to elements ordered by key,
\* or a comparator the caller supplies that orders them the other way round;
\* the sentinel object equals nothing and is unequal to everything
le(a, b) == IF comparator = "operator" THEN a.key <= b.key ELSE a.key >= b.key
\* a comparator that takes the sentinel for an element of key 0
ne_Keys(a, b) == a.key # b.key
eq(a, b) == a # SentinelValue /\ b # SentinelValue /\ a.key = b.key
ne(a, b) == ~eq(a, b)
gt(a, b) == IF comparator = "operator" THEN a.key > b.key ELSE a.key < b.key
\* an ordering comparison with the sentinel object raises TypeError
Comparable(a, b) == a # SentinelValue /\ b # SentinelValue

\* results of a call
Ok(v) == [err |-> "none", val |-> v]
Raise(e) == [err |-> e, val |-> None]

RECURSIVE FloorLog2(_)
FloorLog2(n) == IF n < 2 THEN 0 ELSE 1 + FloorLog2(n \div 2)

Min(a, b) == IF a < b THEN a ELSE b
Max(a, b) == IF a > b THEN a ELSE b

\* the function f with f[x] set to y, x added to the domain when missing
Put(f, x, y) == [z \in (DOMAIN f) \cup {x} |-> IF z = x THEN y ELSE f[z]]

Last(s) == s[Len(s)]
SeqSet(seq) == {seq[i] : i \in 1..Len(seq)}

RECURSIVE Reverse(_)
Reverse(s) == IF s = <<>> THEN <<>> ELSE Append(Reverse(Tail(s)), Head(s))

\* ----------------------------------------------------------- trace engine
\* the inner loop stepping right only while the next value is < v
RECURSIVE Advance_Strict(_, _)
Advance_Strict(node, v) ==
    IF value[next[node]] # SentinelValue /\ value[next[node]].key < v.key
    THEN Advance_Strict(next[node], v)
    ELSE node

\* the inner while loop of __trace: step right while the next value is not
\* the sentinel and is <= v
RECURSIVE Advance(_, _)
Advance(node, v) ==
    IF value[next[node]] # SentinelValue /\ le(value[next[node]], v)
    THEN Advance(next[node], v)
    ELSE node

\* the outer loop of __trace: record the node, go down while it has a below
RECURSIVE TraceFrom(_, _)
TraceFrom(node, v) ==
    LET n == Advance(node, v)
    IN  IF n \in DOMAIN below
        THEN <<n>> \o TraceFrom(below[n], v)
        ELSE <<n>>

\* __trace starting from the first sentinel row instead of the last
Trace_FromBase(v) == TraceFrom(sentinels[1], v)

Trace(v) == TraceFrom(Last(sentinels), v)

\* ------------------------------------------------------- lazy sequences
\* __range, consumed to the end
RECURSIVE Range(_, _)
Range(current, end) ==
    IF value[current] # SentinelValue /\ current # end
    THEN <<value[current]>> \o Range(next[current], end)
    ELSE <<>>

RECURSIVE RangeBack(_, _)
RangeBack(current, end) ==
    IF value[current] # SentinelValue /\ current # end
    THEN <<value[current]>> \o RangeBack(prev[current], end)
    ELSE <<>>

Iter == Range(next[sentinels[1]], sentinels[1])
Reversed == RangeBack(prev[sentinels[1]], sentinels[1])

\* the calls that leave the container as they found it
QueryOps == {"contains", "len", "iter", "reversed", "ceiling", "floor", "range", "getitem",
             "before", "after", "first", "last", "slice"}

\* A query changes nothing, so what can follow it is what could follow the
\* call before it: a behaviour issues its next call only after a mutation,
\* and ends at a query.
Ready == last.op \notin QueryOps

\* History kept with the latest call: "added" after an insert that created
\* an element, with the content and size it found and the values the height
\* generator returned during the call; "undone" after the remove of that
\* same element as the very next call, with the same content and size;
\* "cleared" after clear(), with the content and size it found; "none" after
\* any other call.
NoPre == [kind |-> "none", content |-> <<>>, size |-> 0, gen |-> <<>>]

\* no second container
NoOther == [sentinels |-> <<>>, size |-> 0]

\* no generator
NoCursor == [state |-> "none", current |-> <<>>, end |-> <<>>, out |-> <<>>]

\* the objects a generator that has not finished refers to: the locals
\* `current` and `end` of its frame
Held == IF cursor.state \in {"created", "suspended"}
        THEN <<cursor.current, cursor.end>>
        ELSE <<>>

\* ------------------------------------------------------------ construction
Init ==
    /\ sentinels = <<Sentinel(0, 0)>>
    /\ next = (Sentinel(0, 0) :> Sentinel(0, 0))
    /\ prev = (Sentinel(0, 0) :> Sentinel(0, 0))
    /\ below = <<>>
    /\ value = (Sentinel(0, 0) :> SentinelValue)
    /\ size = 0
    /\ last = [op |-> "init", arg |-> <<>>, res |-> Ok(None), pre |-> NoPre]
    /\ live = {}
    /\ comparator = "operator"
    /\ other = NoOther
    /\ cursor = NoCursor


\* --------------------------------------------------------- mutation engine
\* a.link(b) that forgets the backward link
LinkBase_NoPrev(h, a, b) == [h EXCEPT !.next = Put(h.next, a, b)]

\* a.link(b) for a LinkedListNode a: a.next = b; b.prev = a
LinkBase(h, a, b) == [h EXCEPT !.next = Put(h.next, a, b), !.prev = Put(h.prev, b, a)]
\* a.link(b) for a SkipListNode a: a.next = b
LinkSkip(h, a, b) == [h EXCEPT !.next = Put(h.next, a, b)]
\* a.link(b) that sets the backward link for a node of either class
Link_AlwaysBase(h, a, b) == LinkBase(h, a, b)

\* a.link(b), dispatched on the class of a (only a SkipListNode has a below)
Link(h, a, b) == IF a \in DOMAIN h.below THEN LinkSkip(h, a, b) ELSE LinkBase(h, a, b)

_link2(h, a, b) == Link(h, a, b)
\* the caller evaluates c (a's old successor) before the call
_link3(h, a, b, c) == Link(Link(h, a, b), b, c)

Heap == [sentinels |-> sentinels, next |-> next, prev |-> prev,
         below |-> below, value |-> value]

\* the first container seen with the heap
SelfView == [sentinels |-> sentinels, next |-> next, prev |-> prev, below |-> below,
             value |-> value, size |-> size, comparator |-> comparator]

SetHeap(h) ==
    /\ sentinels' = h.sentinels
    /\ next' = h.next
    /\ prev' = h.prev
    /\ below' = h.below
    /\ value' = h.value

\* the loop of insert starting one row late: range(len(sentinels), height)
RECURSIVE GrowSentinels_OneShort(_, _)
GrowSentinels_OneShort(h, height) ==
    IF Len(h.sentinels) < height
    THEN LET l == Len(h.sentinels)
             new_sentinel == Sentinel(Mark(h), l)
             made == [h EXCEPT !.value = Put(h.value, new_sentinel, SentinelValue),
                               !.below = Put(h.below, new_sentinel, Last(h.sentinels))]
             linked == _link2(made, new_sentinel, new_sentinel)
         IN  GrowSentinels_OneShort([linked EXCEPT !.sentinels =
                                        Append(linked.sentinels, new_sentinel)], height)
    ELSE h

\* the loop of insert that appends sentinel rows up to `height`
RECURSIVE GrowSentinels(_, _)
GrowSentinels(h, height) ==
    IF Len(h.sentinels) - 1 < height
    THEN LET l == Len(h.sentinels)
             new_sentinel == Sentinel(Mark(h), l)
             made == [h EXCEPT !.value = Put(h.value, new_sentinel, SentinelValue),
                               !.below = Put(h.below, new_sentinel, Last(h.sentinels))]
             linked == _link2(made, new_sentinel, new_sentinel)
         IN  GrowSentinels([linked EXCEPT !.sentinels = Append(linked.sentinels, new_sentinel)],
                           height)
    ELSE h

\* the loop of insert that stacks SkipListNodes on the new base node:
\* ns is intermediates[:-height-1:-1], new_node the node created last
RECURSIVE Stack(_, _, _, _)
Stack(h, ns, v, new_node) ==
    IF ns = <<>> THEN h
    ELSE LET n == Head(ns)
             up == Node(Mark(h), v.key, new_node[2] + 1)
             made == [h EXCEPT !.value = Put(h.value, up, v),
                               !.below = Put(h.below, up, new_node)]
         IN  Stack(_link3(made, n, up, h.next[n]), Tail(ns), v, up)

\* intermediates[:-height-1:-1]: the last `height` entries, last first
TopDown(intermediates, height) ==
    [j \in 1..Min(height, Len(intermediates)) |-> intermediates[Len(intermediates) - j + 1]]

\* the cap computed from the size after its increment
CapHeight_AfterIncrement(h) == Min(h, 8 + FloorLog2(size + 2))

\* min(self.__random_height(), 8 + int(_log2(self.__size + 1)))
CapHeight(h) == Min(h, 8 + FloorLog2(size + 1))

\* the objects a set of objects refers to, directly or through others
RECURSIVE Closure(_, _, _)
Closure(h, seen, frontier) ==
    IF frontier = {} THEN seen
    ELSE LET met == seen \cup frontier
             refs == {h.next[n] : n \in frontier \cap DOMAIN h.next}
                     \cup {h.prev[n] : n \in frontier \cap DOMAIN h.prev}
                     \cup {h.below[n] : n \in frontier \cap DOMAIN h.below}
         IN  Closure(h, met, refs \ met)

\* the objects still referenced from the sentinels in `roots`
Reachable(h, roots) == Closure(h, {}, SeqSet(roots))

\* every object no container refers to any more is reclaimed by the runtime
Reclaim(h, roots) ==
    LET keep == Reachable(h, roots)
    IN  [h EXCEPT !.next = [n \in keep \cap DOMAIN h.next |-> h.next[n]],
                  !.prev = [n \in keep \cap DOMAIN h.prev |-> h.prev[n]],
                  !.below = [n \in keep \cap DOMAIN h.below |-> h.below[n]],
                  !.value = [n \in keep \cap DOMAIN h.value |-> h.value[n]]]

\* the name of a new base-level object of key k (0 for a sentinel): the
\* name its container gives it, or a later mark of it when an object of that
\* name is still referenced by a generator
NewBase(h, k) ==
    LET own == Node(Mark(h), k, 0)
        taken(m) == Node(m, k, 0) \in DOMAIN h.value
    IN  IF own \notin Reachable(h, Held)
        THEN own
        ELSE Node(CHOOSE m \in 2..(Cardinality(DOMAIN h.value) + 2) :
                     ~taken(m) /\ \A j \in 2..(m - 1) : taken(j),
                  k, 0)

\* the else branch of insert: a new tower of capped height for v after `node`
InsertNew(path, v, rh) ==
    LET node == Last(path)
        height == CapHeight(rh)
        grown == GrowSentinels(Heap, height)
        fresh == [j \in 1..(Len(grown.sentinels) - Len(sentinels)) |->
                     grown.sentinels[Len(grown.sentinels) - j + 1]]
        intermediates == fresh \o SubSeq(path, 1, Len(path) - 1)
        new_node == NewBase(Heap, v.key)
        made == [grown EXCEPT !.value = Put(grown.value, new_node, v)]
        based == _link3(made, node, new_node, next[node])
    IN  Stack(based, TopDown(intermediates, height), v, new_node)

\* the abstract set after insert(v, replacing)
LiveInsert(v, replacing) ==
    IF \E e \in live : e.key = v.key
    THEN IF replacing THEN {e \in live : e.key # v.key} \cup {v} ELSE live
    ELSE live \cup {v}

\* insert that overwrites whatever `replacing` says
Replace_Always(node, v, replacing) == [value EXCEPT ![node] = v]

\* the branch of insert for an element that is already there
Replace(node, v, replacing) == IF replacing THEN [value EXCEPT ![node] = v] ELSE value

\* remove that unlinks the base node and forgets the levels above it
Unlink_BaseOnly(h, previous, nodes) ==
    IF previous = <<>> \/ nodes = <<>> THEN h
    ELSE IF h.next[Head(previous)] = Head(nodes)
         THEN _link2(h, Head(previous), h.next[Head(nodes)])
         ELSE h

\* the loop of remove over zip(previous, reversed(nodes)), with its break
RECURSIVE Unlink(_, _, _)
Unlink(h, previous, nodes) ==
    IF previous = <<>> \/ nodes = <<>> THEN h
    ELSE LET p == Head(previous)
             n == Head(nodes)
         IN  IF h.next[p] = n
             THEN Unlink(_link2(h, p, h.next[n]), Tail(previous), Tail(nodes))
             ELSE h

\* remove without its second trace: the sentinels are always the candidates
PreviousOf_SentinelsOnly(target) == sentinels

\* the candidate predecessors of the node to remove, base level first: the
\* sentinels when it is the first node, else the trace of the node before it
PreviousOf(target) ==
    IF value[prev[target]] = SentinelValue
    THEN sentinels
    ELSE Reverse(Trace(value[prev[target]]))

\* remove that forgets to decrement the size
RemoveOp_NoSizeUpdate(v) ==
    LET nodes == Trace(v)
        target == Last(nodes)
    IN  IF ne(value[target], v)
        THEN [heap |-> Heap, size |-> size, res |-> Raise("KeyError")]
        ELSE LET previous == PreviousOf(target)
             IN  [heap |-> Reclaim(Unlink(Heap, previous, Reverse(nodes)),
                                  sentinels \o other.sentinels \o Held),
                  size |-> size,
                  res |-> Ok(value[target])]

\* remove(value): the structure, the size and the result it leaves
RemoveOp(v) ==
    LET nodes == Trace(v)
        target == Last(nodes)
    IN  IF ne(value[target], v)
        THEN [heap |-> Heap, size |-> size, res |-> Raise("KeyError")]
        ELSE LET previous == PreviousOf(target)
             IN  [heap |-> Reclaim(Unlink(Heap, previous, Reverse(nodes)),
                                  sentinels \o other.sentinels \o Held),
                  size |-> size - 1,
                  res |-> Ok(value[target])]

Apply(r) ==
    /\ SetHeap(r.heap)
    /\ size' = r.size

Remove(v) ==
    LET r == RemoveOp(v)
    IN  /\ Ready
        /\ UNCHANGED <<comparator, other, cursor>>
        /\ Apply(r)
        /\ last' = [op |-> "remove", arg |-> <<v>>, res |-> r.res,
                    pre |-> IF last.pre.kind = "added" /\ last.arg[1].key = v.key
                            THEN [last.pre EXCEPT !.kind = "undone"]
                            ELSE NoPre]
        /\ live' = {e \in live : e.key # v.key}

\* clear() that forgets to reset the size
Clear_NoSizeReset ==
    LET new_sentinel == NewBase(Heap, 0)
        made == [Heap EXCEPT !.sentinels = <<new_sentinel>>,
                             !.value = Put(value, new_sentinel, SentinelValue)]
    IN
    /\ Ready
    /\ UNCHANGED <<comparator, other, cursor, size>>
    /\ SetHeap(Reclaim(_link2(made, new_sentinel, new_sentinel),
                       <<new_sentinel>> \o other.sentinels \o Held))
    /\ last' = [op |-> "clear", arg |-> <<>>, res |-> Ok(None),
                pre |-> [kind |-> "cleared", content |-> Iter, size |-> size, gen |-> <<>>]]
    /\ live' = {}

\* clear(): a fresh self-linked base sentinel, the old structure is dropped
Clear ==
    LET new_sentinel == NewBase(Heap, 0)
        made == [Heap EXCEPT !.sentinels = <<new_sentinel>>,
                             !.value = Put(value, new_sentinel, SentinelValue)]
    IN
    /\ Ready
    /\ UNCHANGED <<comparator, other, cursor>>
    /\ SetHeap(Reclaim(_link2(made, new_sentinel, new_sentinel),
                       <<new_sentinel>> \o other.sentinels \o Held))
    /\ size' = 0
    /\ last' = [op |-> "clear", arg |-> <<>>, res |-> Ok(None),
                pre |-> [kind |-> "cleared", content |-> Iter, size |-> size, gen |-> <<>>]]
    /\ live' = {}

\* first() without its test for the empty list
FirstOp_NoSizeCheck(default) == Ok(value[next[sentinels[1]]])

\* first(default) and last(default)
FirstOp(default) ==
    IF size = 0
    THEN IF default # SentinelValue THEN Ok(default) ELSE Raise("LookupError")
    ELSE Ok(value[next[sentinels[1]]])

\* last() reading the forward link of the base sentinel
LastOp_First(default) ==
    IF size = 0
    THEN IF default # SentinelValue THEN Ok(default) ELSE Raise("LookupError")
    ELSE Ok(value[next[sentinels[1]]])

LastOp(default) ==
    IF size = 0
    THEN IF default # SentinelValue THEN Ok(default) ELSE Raise("LookupError")
    ELSE Ok(value[prev[sentinels[1]]])

\* the abstract set: its elements in ascending order, smallest and largest
RECURSIVE SortedSeq(_)
SortedSeq(S) ==
    IF S = {} THEN <<>>
    ELSE LET m == CHOOSE e \in S : \A o \in S : e.key <= o.key
         IN  <<m>> \o SortedSeq(S \ {m})

\* shift()
Shift ==
    LET r == IF size = 0
             THEN [heap |-> Heap, size |-> size, res |-> Raise("IndexError")]
             ELSE LET v == FirstOp(NoDefault).val
                      rm == RemoveOp(v)
                  IN  [rm EXCEPT !.res = IF rm.res.err = "none" THEN Ok(v) ELSE rm.res]
    IN  /\ Ready
        /\ UNCHANGED <<comparator, other, cursor>>
        /\ Apply(r)
        /\ last' = [op |-> "shift", arg |-> <<>>, res |-> r.res, pre |-> NoPre]
        /\ live' = IF live = {} THEN live ELSE live \ {Head(SortedSeq(live))}

\* pop(value): value = SentinelValue stands for the omitted argument
Pop(v) ==
    LET r == IF size = 0
             THEN [heap |-> Heap, size |-> size, res |-> Raise("IndexError")]
             ELSE RemoveOp(IF v = SentinelValue THEN LastOp(NoDefault).val ELSE v)
    IN  /\ Ready
        /\ UNCHANGED <<comparator, other, cursor>>
        /\ Apply(r)
        /\ last' = [op |-> "pop", arg |-> <<v>>, res |-> r.res, pre |-> NoPre]
        /\ live' = IF live = {} THEN live
                   ELSE IF v = SentinelValue THEN live \ {Last(SortedSeq(live))}
                   ELSE {e \in live : e.key # v.key}

\* the for loop of __iloc: i steps forward from node
RECURSIVE Walk(_, _)
Walk(node, i) == IF i = 0 THEN node ELSE Walk(next[node], i - 1)

\* __iloc that does not count a negative index from the end
Iloc_NoWrap(index) ==
    IF index < 0 \/ index >= size
    THEN Raise("IndexError")
    ELSE Ok(Walk(next[sentinels[1]], index))

\* __iloc that clamps an index beyond the end to the last node
Iloc_Clamp(index) ==
    LET i == IF index < 0 THEN index + size ELSE index
    IN  IF i < 0 \/ size = 0
        THEN Raise("IndexError")
        ELSE Ok(Walk(next[sentinels[1]], Min(i, size - 1)))

\* __iloc(index): the node at the index, or IndexError
Iloc(index) ==
    LET i == IF index < 0 THEN index + size ELSE index
    IN  IF i < 0 \/ i >= size
        THEN Raise("IndexError")
        ELSE Ok(Walk(next[sentinels[1]], i))

\* the index counted from the front, as a sequence position (1-based)
Position(index, n) == IF index < 0 THEN index + n + 1 ELSE index + 1

\* del list[index]
DelItem(index) ==
    LET at == Iloc(index)
        r == IF at.err # "none"
             THEN [heap |-> Heap, size |-> size, res |-> at]
             ELSE RemoveOp(value[at.val])
        pos == Position(index, Cardinality(live))
    IN  /\ Ready
        /\ UNCHANGED <<comparator, other, cursor>>
        /\ Apply(r)
        /\ last' = [op |-> "delitem", arg |-> <<index>>, res |-> r.res, pre |-> NoPre]
        /\ live' = IF pos \in 1..Cardinality(live)
                   THEN live \ {SortedSeq(live)[pos]}
                   ELSE live

\* ----------------------------------------------------- a second container
\* The same methods running on another SkipList object: c is that container
\* seen with the heap it lives in, [sentinels, next, prev, below, value,
\* size, comparator], and each operator returns what the method leaves.
Comparators == {"operator", "reversed"}

leOf(c, a, b) == IF c.comparator = "operator" THEN a.key <= b.key ELSE a.key >= b.key

RECURSIVE AdvanceOf(_, _, _)
AdvanceOf(c, node, v) ==
    IF c.value[c.next[node]] # SentinelValue /\ leOf(c, c.value[c.next[node]], v)
    THEN AdvanceOf(c, c.next[node], v)
    ELSE node

RECURSIVE TraceFromOf(_, _, _)
TraceFromOf(c, node, v) ==
    LET n == AdvanceOf(c, node, v)
    IN  IF n \in DOMAIN c.below
        THEN <<n>> \o TraceFromOf(c, c.below[n], v)
        ELSE <<n>>

TraceOf(c, v) == TraceFromOf(c, Last(c.sentinels), v)

\* __range on c, consumed to the end, and __iter__
RECURSIVE RangeOf(_, _, _)
RangeOf(c, current, end) ==
    IF c.value[current] # SentinelValue /\ current # end
    THEN <<c.value[current]>> \o RangeOf(c, c.next[current], end)
    ELSE <<>>

IterOf(c) == RangeOf(c, c.next[c.sentinels[1]], c.sentinels[1])

\* the else branch of insert
InsertNewOf(c, path, v, rh) ==
    LET node == Last(path)
        height == Min(rh, 8 + FloorLog2(c.size + 1))
        grown == GrowSentinels(c, height)
        fresh == [j \in 1..(Len(grown.sentinels) - Len(c.sentinels)) |->
                     grown.sentinels[Len(grown.sentinels) - j + 1]]
        intermediates == fresh \o SubSeq(path, 1, Len(path) - 1)
        new_node == NewBase(c, v.key)
        made == [grown EXCEPT !.value = Put(grown.value, new_node, v)]
        based == _link3(made, node, new_node, c.next[node])
        stacked == Stack(based, TopDown(intermediates, height), v, new_node)
    IN  [stacked EXCEPT !.size = c.size + 1]

\* insert(value, replacing) on c, rh the outcome of the height generator
InsertOf(c, v, replacing, rh) ==
    LET path == TraceOf(c, v)
        node == Last(path)
    IN  IF c.value[node] # SentinelValue /\ eq(c.value[node], v)
        THEN IF replacing THEN [c EXCEPT !.value = Put(c.value, node, v)] ELSE c
        ELSE InsertNewOf(c, path, v, rh)

\* remove(value) on c: the container it leaves and the result
RemoveOf(c, v) ==
    LET nodes == TraceOf(c, v)
        target == Last(nodes)
    IN  IF ne(c.value[target], v)
        THEN [view |-> c, res |-> Raise("KeyError")]
        ELSE LET previous == IF c.value[c.prev[target]] = SentinelValue
                             THEN c.sentinels
                             ELSE Reverse(TraceOf(c, c.value[c.prev[target]]))
                 unlinked == Unlink(c, previous, Reverse(nodes))
             IN  [view |-> [Reclaim(unlinked, sentinels \o other.sentinels \o c.sentinels \o Held)
                               EXCEPT !.size = c.size - 1],
                  res |-> Ok(c.value[target])]

\* the sentinels of the containers other than c
Others(c) ==
    SelectSeq(sentinels \o other.sentinels, LAMBDA n : n \notin SeqSet(c.sentinels))

\* clear() on c
ClearOf(c) ==
    LET new_sentinel == NewBase(c, 0)
        made == [c EXCEPT !.sentinels = <<new_sentinel>>,
                          !.value = Put(c.value, new_sentinel, SentinelValue),
                          !.size = 0]
    IN  Reclaim(_link2(made, new_sentinel, new_sentinel),
                <<new_sentinel>> \o Others(c) \o Held)

\* SkipList(): an empty container with the default comparator, before
\* extends(iterable) runs; m marks the objects it will create
NewSkipList(m) ==
    LET sentinel == Sentinel(m, 0)
        made == [sentinels |-> <<sentinel>>, next |-> next, prev |-> prev, below |-> below,
                 value |-> Put(value, sentinel, SentinelValue), size |-> 0,
                 comparator |-> "operator"]
    IN  _link2(made, sentinel, sentinel)

\* insert that replaces an equal element by removing it and inserting the
\* new one
Insert_Reinsert(v, replacing, rh) ==
    LET path == Trace(v)
        node == Last(path)
        found == value[node] # SentinelValue /\ eq(value[node], v)
        c == IF found /\ replacing
             THEN InsertOf(RemoveOf(SelfView, v).view, v, TRUE, rh)
             ELSE InsertOf(SelfView, v, replacing, rh)
    IN  /\ Ready
        /\ UNCHANGED <<comparator, other, cursor>>
        /\ SetHeap(c)
        /\ size' = c.size
        /\ last' = [op |-> "insert", arg |-> <<v, replacing>>, res |-> Ok(None),
                    pre |-> IF found THEN NoPre
                            ELSE [kind |-> "added", content |-> Iter, size |-> size,
                                  gen |-> <<rh>>]]
        /\ live' = LiveInsert(v, replacing)

\* insert(value, replacing) with rh the outcome of the height generator
Insert(v, replacing, rh) ==
    LET path == Trace(v)
        node == Last(path)
        found == value[node] # SentinelValue /\ eq(value[node], v)
    IN  /\ Ready
        /\ UNCHANGED <<comparator, other, cursor>>
        /\ IF found
           THEN /\ value' = Replace(node, v, replacing)
                /\ UNCHANGED <<sentinels, next, prev, below, size>>
           ELSE /\ SetHeap(InsertNew(path, v, rh))
                /\ size' = size + 1
        /\ last' = [op |-> "insert", arg |-> <<v, replacing>>, res |-> Ok(None),
                    pre |-> IF found THEN NoPre
                            ELSE [kind |-> "added", content |-> Iter, size |-> size,
                                  gen |-> <<rh>>]]
        /\ live' = LiveInsert(v, replacing)

\* extends(iterable) on c for the iterable __range(current, end) of a
\* container in the same heap: the generator takes its next step after the
\* insert it fed has returned; rhs are the outcomes of the height generator
RECURSIVE Extends(_, _, _, _)
Extends(c, current, end, rhs) ==
    IF c.value[current] # SentinelValue /\ current # end
    THEN LET d == InsertOf(c, c.value[current], TRUE, IF rhs = <<>> THEN 0 ELSE Head(rhs))
         IN  Extends(d, d.next[current], end,
                     IF d.size > c.size /\ rhs # <<>> THEN Tail(rhs) ELSE rhs)
    ELSE c

\* the second container seen with the heap
OtherView == [sentinels |-> other.sentinels, next |-> next, prev |-> prev, below |-> below,
              value |-> value, size |-> other.size, comparator |-> "operator"]

\* what a call on the second container leaves: the heap and that container;
\* the first container keeps its sentinels, its size and its comparator
SetOther(c) ==
    /\ next' = c.next
    /\ prev' = c.prev
    /\ below' = c.below
    /\ value' = c.value
    /\ other' = [sentinels |-> c.sentinels, size |-> c.size]
    /\ UNCHANGED <<sentinels, size, live, comparator, cursor>>

\* copy(): SkipList(self), kept by the caller as the second container
Copy(rhs) ==
    /\ Ready
    /\ other = NoOther
    /\ SetOther(Extends(NewSkipList(1), next[sentinels[1]], sentinels[1], rhs))
    /\ last' = [op |-> "copy", arg |-> <<>>, res |-> Ok(None), pre |-> NoPre]

\* insert, remove and clear called on the second container
OtherInsert(v, replacing, rh) ==
    /\ Ready
    /\ other # NoOther
    /\ SetOther(InsertOf(OtherView, v, replacing, rh))
    /\ last' = [op |-> "other.insert", arg |-> <<v, replacing>>, res |-> Ok(None),
                pre |-> NoPre]

OtherRemove(v) ==
    LET r == RemoveOf(OtherView, v)
    IN  /\ Ready
        /\ other # NoOther
        /\ SetOther(r.view)
        /\ last' = [op |-> "other.remove", arg |-> <<v>>, res |-> r.res, pre |-> NoPre]

OtherClear ==
    /\ Ready
    /\ other # NoOther
    /\ SetOther(ClearOf(OtherView))
    /\ last' = [op |-> "other.clear", arg |-> <<>>, res |-> Ok(None), pre |-> NoPre]

\* the element comparison of __eq__
ElementNe(a, b) == a.key # b.key

\* a == b: the same size and no differing pair in zip(a, b)
EqOp(a, b) ==
    /\ a.size = b.size
    /\ LET xs == IterOf(a)
           ys == IterOf(b)
       IN  \A i \in 1..Min(Len(xs), Len(ys)) : ~ElementNe(xs[i], ys[i])

\* extends(islice(iterable, start, stop, step)) on c for the iterable
\* __range(current, end) of a container in the same heap; sl.i is the index
\* of `current`, sl.nxt the next index islice lets through, sl.stop the
\* index it stops at (<<>> for None)
RECURSIVE ExtendsSlice(_, _, _, _, _)
ExtendsSlice(c, current, end, sl, rhs) ==
    IF sl.stop # <<>> /\ sl.nxt >= sl.stop[1] THEN c
    ELSE IF c.value[current] = SentinelValue \/ current = end THEN c
    ELSE IF sl.i = sl.nxt
         THEN LET d == InsertOf(c, c.value[current], TRUE,
                                IF rhs = <<>> THEN 0 ELSE Head(rhs))
              IN  ExtendsSlice(d, d.next[current], end,
                               [sl EXCEPT !.i = sl.i + 1, !.nxt = sl.nxt + sl.step],
                               IF d.size > c.size /\ rhs # <<>> THEN Tail(rhs) ELSE rhs)
         ELSE ExtendsSlice(c, c.next[current], end, [sl EXCEPT !.i = sl.i + 1], rhs)

\* list[start:stop:step], <<>> standing for an omitted bound or step; the
\* new container is kept by the caller as the second container
Slice(start, stop, step, rhs) ==
    LET first == IF start = <<>> THEN 0
                 ELSE IF start[1] < 0 THEN Max(start[1] + size, 0) ELSE start[1]
        limit == IF stop # <<>> /\ stop[1] < 0
                 THEN <<Max(Min(stop[1] + size, size), 0)>>
                 ELSE stop
        sl == [i |-> 0, nxt |-> first, stop |-> limit,
               step |-> IF step = <<>> THEN 1 ELSE step[1]]
    IN  /\ Ready
        /\ other = NoOther
        /\ IF step # <<>> /\ step[1] <= 0
           THEN /\ UNCHANGED <<sentinels, next, prev, below, value, size, live,
                              comparator, other, cursor>>
                /\ last' = [op |-> "slice", arg |-> <<start, stop, step>>,
                            res |-> Raise("ValueError"), pre |-> NoPre]
           ELSE /\ SetOther(ExtendsSlice(NewSkipList(1), next[sentinels[1]], sentinels[1],
                                         sl, rhs))
                /\ last' = [op |-> "slice", arg |-> <<start, stop, step>>,
                            res |-> Ok(None), pre |-> NoPre]

\* --------------------------------------- the queries on a container view
gtOf(c, a, b) == IF c.comparator = "operator" THEN a.key > b.key ELSE a.key < b.key

\* value in list reading the first entry of the trace instead of the last
ContainsOf_TopEntry(c, v) ==
    LET found == c.value[Head(TraceOf(c, v))]
    IN  found # SentinelValue /\ eq(found, v)

\* value in list
ContainsOf(c, v) ==
    LET found == c.value[Last(TraceOf(c, v))]
    IN  found # SentinelValue /\ eq(found, v)

CeilingNodeOf(c, key, inclusive) ==
    LET node == Last(TraceOf(c, key))
    IN  IF eq(c.value[node], key) /\ inclusive THEN node ELSE c.next[node]

FloorNodeOf(c, key, inclusive) ==
    LET node == Last(TraceOf(c, key))
    IN  IF eq(c.value[node], key) /\ ~inclusive THEN c.prev[node] ELSE node

BoundedOf(c, node, default) ==
    IF c.value[node] = SentinelValue
    THEN IF default # SentinelValue THEN Ok(default) ELSE Raise("LookupError")
    ELSE Ok(c.value[node])

CeilingOf(c, v, inclusive, default) == BoundedOf(c, CeilingNodeOf(c, v, inclusive), default)
FloorOf(c, v, inclusive, default) == BoundedOf(c, FloorNodeOf(c, v, inclusive), default)

RangeOpOf(c, start, end, include_start, include_end) ==
    LET first == CeilingNodeOf(c, start, include_start)
        stop == c.next[FloorNodeOf(c, end, include_end)]
    IN  IF stop # c.sentinels[1]
        THEN IF ~Comparable(c.value[first], c.value[stop])
             THEN Raise("TypeError")
             ELSE Ok(RangeOf(c, first,
                             IF gtOf(c, c.value[first], c.value[stop]) THEN first ELSE stop))
        ELSE Ok(RangeOf(c, first, stop))

AfterOf(c, v, inclusive) == RangeOf(c, CeilingNodeOf(c, v, inclusive), c.sentinels[1])
BeforeOf(c, v, inclusive) ==
    RangeOf(c, c.next[c.sentinels[1]], c.next[FloorNodeOf(c, v, inclusive)])

\* __reversed__, consumed to the end
RECURSIVE RangeBackOf(_, _, _)
RangeBackOf(c, current, end) ==
    IF c.value[current] # SentinelValue /\ current # end
    THEN <<c.value[current]>> \o RangeBackOf(c, c.prev[current], end)
    ELSE <<>>

ReversedOf(c) == RangeBackOf(c, c.prev[c.sentinels[1]], c.sentinels[1])

FirstOf(c, default) ==
    IF c.size = 0
    THEN IF default # SentinelValue THEN Ok(default) ELSE Raise("LookupError")
    ELSE Ok(c.value[c.next[c.sentinels[1]]])

LastOf(c, default) ==
    IF c.size = 0
    THEN IF default # SentinelValue THEN Ok(default) ELSE Raise("LookupError")
    ELSE Ok(c.value[c.prev[c.sentinels[1]]])

RECURSIVE WalkOf(_, _, _)
WalkOf(c, node, i) == IF i = 0 THEN node ELSE WalkOf(c, c.next[node], i - 1)

IlocOf(c, index) ==
    LET i == IF index < 0 THEN index + c.size ELSE index
    IN  IF i < 0 \/ i >= c.size
        THEN Raise("IndexError")
        ELSE Ok(WalkOf(c, c.next[c.sentinels[1]], i))

GetItemOf(c, index) ==
    IF index < 0 - c.size \/ index >= c.size
    THEN Raise("IndexError")
    ELSE LET at == IlocOf(c, index)
         IN  IF at.err = "none" THEN Ok(c.value[at.val]) ELSE at

\* shift(), pop(value) and del list[index] on c: the container they leave
\* and the result
ShiftOf(c) ==
    IF c.size = 0
    THEN [view |-> c, res |-> Raise("IndexError")]
    ELSE LET v == FirstOf(c, NoDefault).val
             rm == RemoveOf(c, v)
         IN  [rm EXCEPT !.res = IF rm.res.err = "none" THEN Ok(v) ELSE rm.res]

PopOf(c, v) ==
    IF c.size = 0
    THEN [view |-> c, res |-> Raise("IndexError")]
    ELSE RemoveOf(c, IF v = SentinelValue THEN LastOf(c, NoDefault).val ELSE v)

DelItemOf(c, index) ==
    LET at == IlocOf(c, index)
    IN  IF at.err # "none"
        THEN [view |-> c, res |-> at]
        ELSE RemoveOf(c, c.value[at.val])

\* -------------------------------------------------- two containers in step
\* the second container, which has the comparator of the first, seen with
\* the heap that a call on the first left
Rebase(a) == [a EXCEPT !.sentinels = other.sentinels, !.size = other.size]

\* the second container as constructed with the comparator of the first
PairView == [OtherView EXCEPT !.comparator = comparator]

\* the same call made on the first container and then on the second: a and
\* b are the containers the two calls leave, b with the heap both have left
Both(op, a, b) ==
    /\ sentinels' = a.sentinels
    /\ size' = a.size
    /\ next' = b.next
    /\ prev' = b.prev
    /\ below' = b.below
    /\ value' = b.value
    /\ other' = [sentinels |-> b.sentinels, size |-> b.size]
    /\ live' = SeqSet(IterOf([b EXCEPT !.sentinels = a.sentinels]))
    /\ last' = [op |-> op, arg |-> <<>>, res |-> Ok(None), pre |-> NoPre]
    /\ UNCHANGED <<comparator, cursor>>

\* insert(v, replacing) on both, each with the outcome of its own generator
PairInsert(v, replacing, rh1, rh2) ==
    LET a == InsertOf(SelfView, v, replacing, rh1)
    IN  Both("insert", a, InsertOf(Rebase(a), v, replacing, rh2))

PairRemove(v) ==
    LET a == RemoveOf(SelfView, v).view
    IN  Both("remove", a, RemoveOf(Rebase(a), v).view)

PairShift ==
    LET a == ShiftOf(SelfView).view
    IN  Both("shift", a, ShiftOf(Rebase(a)).view)

PairPop(v) ==
    LET a == PopOf(SelfView, v).view
    IN  Both("pop", a, PopOf(Rebase(a), v).view)

PairDelItem(index) ==
    LET a == DelItemOf(SelfView, index).view
    IN  Both("delitem", a, DelItemOf(Rebase(a), index).view)

PairClear ==
    LET a == ClearOf(SelfView)
    IN  Both("clear", a, ClearOf(Rebase(a)))

\* ------------------------------------------------------------ query engine
\* __ceiling that returns an equal node whatever `inclusive` says
CeilingNode_IgnoreInclusive(key, inclusive) ==
    LET node == Last(Trace(key))
    IN  IF eq(value[node], key) THEN node ELSE next[node]

\* __floor that returns an equal node whatever `inclusive` says
FloorNode_IgnoreInclusive(key, inclusive) == Last(Trace(key))

\* __ceiling and __floor: the base node that bounds the key
CeilingNode(key, inclusive) ==
    LET node == Last(Trace(key))
    IN  IF eq(value[node], key) /\ inclusive THEN node ELSE next[node]

FloorNode(key, inclusive) ==
    LET node == Last(Trace(key))
    IN  IF eq(value[node], key) /\ ~inclusive THEN prev[node] ELSE node

\* the tail of ceiling and floor: the node's value, the default or LookupError
Bounded(node, default) ==
    IF value[node] = SentinelValue
    THEN IF default # SentinelValue THEN Ok(default) ELSE Raise("LookupError")
    ELSE Ok(value[node])

CeilingOp(v, inclusive, default) == Bounded(CeilingNode(v, inclusive), default)
FloorOp(v, inclusive, default) == Bounded(FloorNode(v, inclusive), default)

\* range(start, end, include_start, include_end), consumed to the end
RangeOp(start, end, include_start, include_end) ==
    LET first == CeilingNode(start, include_start)
        stop == next[FloorNode(end, include_end)]
    IN  IF stop # sentinels[1]
        THEN IF ~Comparable(value[first], value[stop])
             THEN Raise("TypeError")
             ELSE Ok(Range(first, IF gt(value[first], value[stop]) THEN first ELSE stop))
        ELSE Ok(Range(first, stop))

\* after(value, inclusive) and before(value, inclusive), consumed to the end
AfterOp(v, inclusive) == Range(CeilingNode(v, inclusive), sentinels[1])
BeforeOp(v, inclusive) == Range(next[sentinels[1]], next[FloorNode(v, inclusive)])

\* value in list
ContainsOp(v) ==
    LET found == value[Last(Trace(v))]
    IN  found # SentinelValue /\ eq(found, v)

\* list[index] for an integer index
GetItemOp(index) ==
    IF index < 0 - size \/ index >= size
    THEN Raise("IndexError")
    ELSE LET at == Iloc(index)
         IN  IF at.err = "none" THEN Ok(value[at.val]) ELSE at

\* a call that only reads: the container is left as it was
Query(op, arg, res) ==
    /\ Ready
    /\ last' = [op |-> op, arg |-> arg, res |-> res, pre |-> NoPre]
    /\ UNCHANGED <<sentinels, next, prev, below, value, size, live, comparator, other,
                   cursor>>

Contains(v) == Query("contains", <<v>>, Ok(ContainsOp(v)))
LenCall == Query("len", <<>>, Ok(size))
IterCall == Query("iter", <<>>, Ok(Iter))
ReversedCall == Query("reversed", <<>>, Ok(Reversed))
Ceiling(v, inclusive, default) ==
    Query("ceiling", <<v, inclusive, default>>, CeilingOp(v, inclusive, default))
Floor(v, inclusive, default) ==
    Query("floor", <<v, inclusive, default>>, FloorOp(v, inclusive, default))
RangeCall(start, end, include_start, include_end) ==
    Query("range", <<start, end, include_start, include_end>>,
          RangeOp(start, end, include_start, include_end))
GetItem(index) == Query("getitem", <<index>>, GetItemOp(index))
After(v, inclusive) == Query("after", <<v, inclusive>>, Ok(AfterOp(v, inclusive)))
Before(v, inclusive) == Query("before", <<v, inclusive>>, Ok(BeforeOp(v, inclusive)))
First(default) == Query("first", <<default>>, FirstOp(default))
LastCall(default) == Query("last", <<default>>, LastOp(default))

Defaults == {NoDefault, DefaultValue}

\* ------------------------------------------------------- lazy consumption
\* A call that returns __range(current, end): the generator object is made
\* with its two arguments bound, and no line of its body has run yet.
Open(current, end) ==
    /\ Ready
    /\ cursor = NoCursor
    /\ cursor' = [state |-> "created", current |-> current, end |-> end, out |-> <<>>]
    /\ UNCHANGED <<sentinels, next, prev, below, value, size, last, live, comparator, other>>

\* iter(list)
IterOpen == Open(next[sentinels[1]], sentinels[1])

\* range(start, end, include_start, include_end); the call that raises
\* TypeError returns no generator
RangeOpen(start, end, include_start, include_end) ==
    LET first == CeilingNode(start, include_start)
        stop == next[FloorNode(end, include_end)]
    IN  IF stop # sentinels[1]
        THEN /\ Comparable(value[first], value[stop])
             /\ Open(first, IF gt(value[first], value[stop]) THEN first ELSE stop)
        ELSE Open(first, stop)

\* after(value, inclusive) and before(value, inclusive)
AfterOpen(v, inclusive) == Open(CeilingNode(v, inclusive), sentinels[1])
BeforeOpen(v, inclusive) == Open(next[sentinels[1]], next[FloorNode(v, inclusive)])

\* the loop of __range without its test for the sentinel
StepTo_IgnoreSentinel(current) == current # cursor.end

\* the test of the while loop of __range
StepTo(current) == value[current] # SentinelValue /\ current # cursor.end

\* next(generator): the body runs from where it was suspended to its next
\* yield or to its end. Resumed after a yield it first reads current.next,
\* as the links are now; then it tests the loop condition and either yields
\* current.value or returns; a generator that returned drops its frame, and
\* the caller is done with it.
Step ==
    LET current == IF cursor.state = "created" THEN cursor.current
                   ELSE next[cursor.current]
    IN  /\ cursor.state \in {"created", "suspended"}
        /\ IF StepTo(current)
           THEN /\ cursor' = [cursor EXCEPT !.state = "suspended", !.current = current,
                                            !.out = Append(@, value[current])]
                /\ SetHeap(Reclaim(Heap, sentinels \o other.sentinels
                                         \o <<current, cursor.end>>))
           ELSE /\ cursor' = NoCursor
                /\ SetHeap(Reclaim(Heap, sentinels \o other.sentinels))
        /\ UNCHANGED <<size, last, live, comparator, other>>

Next ==
    \/ \E v \in Elements, replacing \in BOOLEAN, rh \in Heights : Insert(v, replacing, rh)
    \/ \E v \in ProbeValues : Remove(v)
    \/ Shift
    \/ \E v \in ProbeValues \cup {SentinelValue} : Pop(v)
    \/ \E index \in Indexes : DelItem(index)
    \/ Clear
    \/ \E v \in ProbeValues : Contains(v)
    \/ LenCall
    \/ IterCall
    \/ ReversedCall
    \/ \E v \in ProbeValues, inclusive \in BOOLEAN, default \in Defaults :
          Ceiling(v, inclusive, default)
    \/ \E v \in ProbeValues, inclusive \in BOOLEAN, default \in Defaults :
          Floor(v, inclusive, default)
    \/ \E start \in ProbeValues, end \in ProbeValues,
          include_start \in BOOLEAN, include_end \in BOOLEAN :
          RangeCall(start, end, include_start, include_end)
    \/ \E index \in Indexes : GetItem(index)
    \/ \E v \in ProbeValues, inclusive \in BOOLEAN : After(v, inclusive)
    \/ \E v \in ProbeValues, inclusive \in BOOLEAN : Before(v, inclusive)
    \/ \E default \in Defaults : First(default)
    \/ \E default \in Defaults : LastCall(default)

Spec == Init /\ [][Next]_vars

\* The height generator returns any natural number: the inserts, removes and
\* clears of a caller whose generator also returns a height above the cap.
NextTall ==
    \/ \E v \in Elements, replacing \in BOOLEAN, rh \in TallHeights : Insert(v, replacing, rh)
    \/ \E v \in ProbeValues : Remove(v)
    \/ Clear

SpecTall == Init /\ [][NextTall]_vars

\* A caller that constructs the container with either comparator, mutates
\* it, copies it once and then mutates the original and the copy.
InitAny ==
    /\ sentinels = <<Sentinel(0, 0)>>
    /\ next = (Sentinel(0, 0) :> Sentinel(0, 0))
    /\ prev = (Sentinel(0, 0) :> Sentinel(0, 0))
    /\ below = <<>>
    /\ value = (Sentinel(0, 0) :> SentinelValue)
    /\ size = 0
    /\ last = [op |-> "init", arg |-> <<>>, res |-> Ok(None), pre |-> NoPre]
    /\ live = {}
    /\ comparator \in Comparators
    /\ other = NoOther
    /\ cursor = NoCursor

NextCopy ==
    \/ \E v \in Elements, replacing \in BOOLEAN, rh \in Heights : Insert(v, replacing, rh)
    \/ \E v \in ProbeValues : Remove(v)
    \/ Clear
    \/ \E rhs \in [1..size -> Heights] : Copy(rhs)
    \/ \E v \in Elements, replacing \in BOOLEAN, rh \in Heights : OtherInsert(v, replacing, rh)
    \/ \E v \in ProbeValues : OtherRemove(v)
    \/ OtherClear

SpecCopy == InitAny /\ [][NextCopy]_vars

\* A caller that constructs the container with either comparator, mutates it
\* and takes a slice of it.
NextSlice ==
    \/ \E v \in Elements, replacing \in BOOLEAN, rh \in Heights : Insert(v, replacing, rh)
    \/ \E v \in ProbeValues : Remove(v)
    \/ Clear
    \/ \E start \in Bounds, stop \in Bounds, step \in Steps, rhs \in [1..size -> Heights] :
          Slice(start, stop, step, rhs)

SpecSlice == InitAny /\ [][NextSlice]_vars

\* Two containers constructed empty with the same comparator and given the
\* same calls, each drawing its own heights.
InitPair ==
    /\ sentinels = <<Sentinel(0, 0)>>
    /\ other = [sentinels |-> <<Sentinel(1, 0)>>, size |-> 0]
    /\ next = [n \in {Sentinel(0, 0), Sentinel(1, 0)} |-> n]
    /\ prev = [n \in {Sentinel(0, 0), Sentinel(1, 0)} |-> n]
    /\ below = <<>>
    /\ value = [n \in {Sentinel(0, 0), Sentinel(1, 0)} |-> SentinelValue]
    /\ size = 0
    /\ last = [op |-> "init", arg |-> <<>>, res |-> Ok(None), pre |-> NoPre]
    /\ live = {}
    /\ comparator \in Comparators
    /\ cursor = NoCursor

NextPair ==
    \/ \E v \in Elements, replacing \in BOOLEAN, rh1 \in Heights, rh2 \in Heights :
          PairInsert(v, replacing, rh1, rh2)
    \/ \E v \in ProbeValues : PairRemove(v)
    \/ PairShift
    \/ \E v \in ProbeValues \cup {SentinelValue} : PairPop(v)
    \/ \E index \in Indexes : PairDelItem(index)
    \/ PairClear

SpecPair == InitPair /\ [][NextPair]_vars

\* a mutation made between two steps of the generator, which keeps its frame:
\* c is the container the call leaves
Between(op, c) ==
    /\ Ready
    /\ SetHeap(c)
    /\ size' = c.size
    /\ live' = SeqSet(IterOf(c))
    /\ last' = [op |-> op, arg |-> <<>>, res |-> Ok(None), pre |-> NoPre]
    /\ UNCHANGED <<comparator, other, cursor>>

InsertBetween(v, replacing, rh) == Between("insert", InsertOf(SelfView, v, replacing, rh))
RemoveBetween(v) == Between("remove", RemoveOf(SelfView, v).view)
ClearBetween == Between("clear", ClearOf(SelfView))

\* the objects that only the generator keeps from being reclaimed
Garbage == DOMAIN value \ Reachable(Heap, sentinels \o other.sentinels)

\* One container of either ordering and one generator at a time over it,
\* consumed step by step
\* with insert, remove and clear between the steps; the container is left
\* alone while the generator keeps more than MaxGarbage objects.
NextIter ==
    \/ /\ Cardinality(Garbage) <= MaxGarbage
       /\ \E v \in Elements, replacing \in BOOLEAN, rh \in Heights :
             InsertBetween(v, replacing, rh)
    \/ /\ Cardinality(Garbage) <= MaxGarbage
       /\ \E v \in ProbeValues : RemoveBetween(v)
    \/ /\ Cardinality(Garbage) <= MaxGarbage
       /\ ClearBetween
    \/ IterOpen
    \/ \E start \in ProbeValues, end \in ProbeValues,
          include_start \in BOOLEAN, include_end \in BOOLEAN :
          RangeOpen(start, end, include_start, include_end)
    \/ \E v \in ProbeValues, inclusive \in BOOLEAN : AfterOpen(v, inclusive)
    \/ \E v \in ProbeValues, inclusive \in BOOLEAN : BeforeOpen(v, inclusive)
    \/ Step

SpecIter == InitAny /\ [][NextIter]_vars

\* ================================================================ claims
\* the abstract set seen as the container should show it
LiveKeys == {e.key : e \in live}
Content == SortedSeq(live)
KeysOf(seq) == [i \in 1..Len(seq) |-> seq[i].key]
HasKey(seq, k) == \E i \in 1..Len(seq) : seq[i].key = k

\* C1: after any sequence of inserts and removes, ascending iteration yields
\* exactly the distinct live keys in sorted order and reversed iteration the
\* same keys in reverse order.
C1_IterationSorted ==
    /\ KeysOf(Iter) = KeysOf(Content)
    /\ KeysOf(Reversed) = Reverse(KeysOf(Content))
    /\ last.op = "iter" => KeysOf(last.res.val) = KeysOf(Content)
    /\ last.op = "reversed" => KeysOf(last.res.val) = Reverse(KeysOf(Content))

\* reversed iteration over two elements of a structure of two levels
C1_Witness ==
    /\ last.op = "reversed"
    /\ Len(last.res.val) = 2
    /\ Len(sentinels) > 1
    /\ last.res.val[1].key > last.res.val[2].key

\* C2: the container refines a set: len() is the number of live keys and
\* membership holds exactly for the live keys, after any sequence of insert,
\* remove, shift, pop, delete-at and clear; an emptied container has size 0
\* and no member.
C2_RefinesSet ==
    /\ size = Cardinality(LiveKeys)
    /\ \A v \in ProbeValues : ContainsOp(v) <=> v.key \in LiveKeys
    /\ last.op = "len" => last.res.val = Cardinality(LiveKeys)
    /\ last.op = "contains" => last.res.val = (last.arg[1].key \in LiveKeys)
    /\ live = {} => size = 0 /\ \A v \in ProbeValues : ~ContainsOp(v)

\* a container emptied by a removal (a tower of two levels was there)
C2_Witness ==
    /\ last.op \in {"remove", "shift", "pop", "delitem"}
    /\ last.res.err = "none"
    /\ size = 0
    /\ Len(sentinels) > 1

\* the smallest element >= k (> k when not inclusive), the largest <= k (< k)
Above(k, inclusive) == {e \in live : IF inclusive THEN e.key >= k ELSE e.key > k}
Below(k, inclusive) == {e \in live : IF inclusive THEN e.key <= k ELSE e.key < k}
Smallest(S) == CHOOSE e \in S : \A o \in S : e.key <= o.key
Largest(S) == CHOOSE e \in S : \A o \in S : e.key >= o.key
OrDefault(S, e, default) ==
    IF S # {} THEN Ok(e)
    ELSE IF default # NoDefault THEN Ok(default) ELSE Raise("LookupError")
BruteCeiling(v, inclusive, default) ==
    LET S == Above(v.key, inclusive) IN OrDefault(S, Smallest(S), default)
BruteFloor(v, inclusive, default) ==
    LET S == Below(v.key, inclusive) IN OrDefault(S, Largest(S), default)

RECURSIVE Filter(_, _, _, _, _)
Filter(seq, lo, include_lo, hi, include_hi) ==
    IF seq = <<>> THEN <<>>
    ELSE LET e == Head(seq)
             rest == Filter(Tail(seq), lo, include_lo, hi, include_hi)
             keep == /\ IF include_lo THEN e.key >= lo ELSE e.key > lo
                     /\ IF include_hi THEN e.key <= hi ELSE e.key < hi
         IN  IF keep THEN <<e>> \o rest ELSE rest

BruteRange(start, end, include_start, include_end) ==
    Filter(Content, start.key, include_start, end.key, include_end)

\* C4: range(a, b, include_start, include_end) yields exactly the elements of
\* the sorted content that pass the lower and upper bound tests, in ascending
\* order, for every a and b and each of the four inclusive/exclusive
\* combinations; the empty sequence when a > b.
C4_RangeBruteForce ==
    last.op = "range" =>
        last.res = Ok(BruteRange(last.arg[1], last.arg[2], last.arg[3], last.arg[4]))

\* what the code does: the same, except that it raises TypeError when no
\* element passes the lower bound test while the upper bound resolves to an
\* element (the sentinel object is then compared with that element)
C4_RangeAsCoded ==
    \A a \in ProbeValues, b \in ProbeValues, is \in BOOLEAN, ie \in BOOLEAN :
        RangeOp(a, b, is, ie) =
            IF Above(a.key, is) = {} /\ next[FloorNode(b, ie)] # sentinels[1]
            THEN Raise("TypeError")
            ELSE Ok(BruteRange(a, b, is, ie))

\* C5: for a key k that is not in the container, insert(k) followed by
\* remove(k) restores the prior size and the prior ascending content,
\* whatever tower height was generated for k.
C5_InsertRemoveRestores ==
    (last.op = "remove" /\ last.pre.kind = "undone") =>
        /\ last.res.err = "none"
        /\ size = last.pre.size
        /\ Iter = last.pre.content
        /\ Reversed = Reverse(last.pre.content)

\* the element inserted and removed again had a neighbour in the container
C5_Witness ==
    /\ last.op = "remove"
    /\ last.pre.kind = "undone"
    /\ last.pre.size = 1
    /\ Len(sentinels) > 1
    /\ last.arg[1].key < last.pre.content[1].key

\* C6: remove(k) for a key k that is not in the container (an empty
\* container included) fails with KeyError and leaves the size, the content
\* and every link at every level unchanged.
C6_RemoveAbsent ==
    [][(last'.op = "remove" /\ ~HasKey(Iter, last'.arg[1].key)) =>
          /\ last'.res = Raise("KeyError")
          /\ UNCHANGED <<sentinels, next, prev, below, value, size>>]_vars

\* a failed remove on a container that holds a tower of two levels
C6_Witness ==
    /\ last.op = "remove"
    /\ last.res.err = "KeyError"
    /\ size > 0
    /\ Len(sentinels) > 1

\* seq without its i-th entry
Without(seq, i) == [j \in 1..(Len(seq) - 1) |-> IF j < i THEN seq[j] ELSE seq[j + 1]]
IndexOfKey(seq, k) == CHOOSE i \in 1..Len(seq) : seq[i].key = k

\* C7: on a non-empty container shift() removes and returns the smallest
\* element, pop() the largest and pop(k) the element k; the size drops by one
\* and all other elements remain, in order.
C7_ShiftPop ==
    [][/\ (last'.op = "shift" /\ size > 0) =>
             /\ last'.res = Ok(Iter[1])
             /\ size' = size - 1
             /\ Iter' = Tail(Iter)
       /\ (last'.op = "pop" /\ size > 0 /\ last'.arg[1] = SentinelValue) =>
             /\ last'.res = Ok(Iter[Len(Iter)])
             /\ size' = size - 1
             /\ Iter' = SubSeq(Iter, 1, Len(Iter) - 1)
       /\ (last'.op = "pop" /\ size > 0 /\ HasKey(Iter, last'.arg[1].key)) =>
             /\ last'.res = Ok(Iter[IndexOfKey(Iter, last'.arg[1].key)])
             /\ size' = size - 1
             /\ Iter' = Without(Iter, IndexOfKey(Iter, last'.arg[1].key))]_vars

\* pop() took the largest of two elements and left the smaller one
C7_Witness ==
    /\ last.op = "pop"
    /\ last.arg[1] = SentinelValue
    /\ last.res.err = "none"
    /\ size = 1
    /\ Iter[1].key < last.res.val.key

\* seq with v in the place of the entry that compares equal to v
Swapped(seq, v) == [i \in 1..Len(seq) |-> IF seq[i].key = v.key THEN v ELSE seq[i]]

\* C8: inserting a value that compares equal to an element of the container
\* never changes the size, the number of levels, or any link or tower; with
\* replacing the stored element becomes the supplied value, without it the
\* stored element stays the original one.
C8_InsertExisting ==
    [][(last'.op = "insert" /\ HasKey(Iter, last'.arg[1].key)) =>
          /\ UNCHANGED <<sentinels, next, prev, below, size>>
          /\ DOMAIN value' = DOMAIN value
          /\ \A n \in DOMAIN below : value'[n] = value[n]
          /\ Iter' = IF last'.arg[2] THEN Swapped(Iter, last'.arg[1]) ELSE Iter]_vars

\* a replacing insert put "b" where "a" was stored: the level node above the
\* base node still carries the value the tower was built with
C8_Witness ==
    /\ last.op = "insert"
    /\ last.arg[2]
    /\ last.pre.kind = "none"
    /\ last.arg[1].tag = "b"
    /\ HasKey(Iter, TwinKey)
    /\ Iter[IndexOfKey(Iter, TwinKey)].tag = "b"
    /\ \E n \in DOMAIN below : value[n] = Elem(TwinKey, "a")

\* the result list[index] should give on a container of n elements
BruteGetItem(index) ==
    LET n == Len(Content)
    IN  IF 0 <= index /\ index < n THEN Ok(Content[index + 1])
        ELSE IF 0 - n <= index /\ index < 0 THEN Ok(Content[n + index + 1])
        ELSE Raise("IndexError")

\* C9: on a container of size n, list[i] is the i-th element of the sorted
\* content for 0 <= i < n, the (n+i)-th for -n <= i < 0, and raises
\* IndexError for every other i (every i on an empty container).
C9_GetItem ==
    /\ \A index \in Indexes : GetItemOp(index) = BruteGetItem(index)
    /\ last.op = "getitem" => last.res = BruteGetItem(last.arg[1])

\* a negative index that reached the first of two elements
C9_Witness ==
    /\ last.op = "getitem"
    /\ last.arg[1] = 0 - 2
    /\ size = 2
    /\ last.res = Ok(Iter[1])

\* C10: del list[i] removes exactly the element at sorted position i
\* (a negative i counted from the end) and no other; for an i out of range
\* it raises IndexError and leaves the container unchanged.
C10_DelItem ==
    [][last'.op = "delitem" =>
          LET i == last'.arg[1]
              n == Len(Iter)
          IN  IF 0 - n <= i /\ i < n
              THEN /\ last'.res = Ok(Iter[Position(i, n)])
                   /\ Iter' = Without(Iter, Position(i, n))
                   /\ size' = size - 1
              ELSE /\ last'.res = Raise("IndexError")
                   /\ UNCHANGED <<sentinels, next, prev, below, value, size>>]_vars

\* a negative index deleted the first of two elements
C10_Witness ==
    /\ last.op = "delitem"
    /\ last.arg[1] = 0 - 2
    /\ last.res.err = "none"
    /\ size = 1
    /\ Iter[1].key > last.res.val.key

\* the elements of the content below k (up to k) and from k on (above k)
BruteBefore(v, inclusive) == SortedSeq(Below(v.key, inclusive))
BruteAfter(v, inclusive) == SortedSeq(Above(v.key, inclusive))

\* C11: before(k) yields in ascending order exactly the elements < k (<= k
\* when inclusive), after(k) exactly the elements >= k (> k when not
\* inclusive); both yield the empty sequence on an empty container.
C11_BeforeAfter ==
    /\ \A v \in ProbeValues, inclusive \in BOOLEAN :
          /\ BeforeOp(v, inclusive) = BruteBefore(v, inclusive)
          /\ AfterOp(v, inclusive) = BruteAfter(v, inclusive)
          /\ live = {} => BeforeOp(v, inclusive) = <<>> /\ AfterOp(v, inclusive) = <<>>
    /\ last.op = "before" => last.res = Ok(BruteBefore(last.arg[1], last.arg[2]))
    /\ last.op = "after" => last.res = Ok(BruteAfter(last.arg[1], last.arg[2]))

\* an exclusive before asked at the larger of two elements
C11_Witness ==
    /\ last.op = "before"
    /\ ~last.arg[2]
    /\ size = 2
    /\ last.arg[1].key = Iter[2].key
    /\ last.res = Ok(<<Iter[1]>>)

\* what a lookup with a default gives when there is nothing to return
Nothing(default) == IF default # NoDefault THEN Ok(default) ELSE Raise("LookupError")

RECURSIVE Row(_, _)
Row(n, s) == IF n = s THEN <<>> ELSE <<n>> \o Row(next[n], s)
LevelNodes(l) == Row(next[sentinels[l]], sentinels[l])
Levels == 1..Len(sentinels)
\* the node of key k in level l, the levels key k is linked into
NodesOfKey(l, k) == {n \in SeqSet(LevelNodes(l)) : value[n].key = k}
LevelsOf(k) == {l \in Levels : NodesOfKey(l, k) # {}}

\* C15: in every reachable state, at every level the keys met by following
\* forward links from the level's sentinel back to it are strictly
\* increasing, so no key occurs twice in a level.
C15_LevelsIncreasing ==
    \A l \in Levels :
        LET row == LevelNodes(l)
        IN  \A i \in 1..Len(row) :
                /\ value[row[i]] # SentinelValue
                /\ i < Len(row) => value[row[i]].key < value[row[i + 1]].key

\* two elements share a level above the base
C15_Witness ==
    /\ Len(sentinels) > 1
    /\ Len(LevelNodes(2)) = 2
    /\ last.op \in {"insert", "remove"}

\* the nodes met from n by downward links, n first
RECURSIVE Down(_)
Down(n) == IF n \in DOMAIN below THEN <<n>> \o Down(below[n]) ELSE <<n>>

\* C16: towers are contiguous and well linked: a key linked into level i > 0
\* is linked into every level below it, and its node at level i has a
\* downward chain of exactly i steps through nodes of the same key, each in
\* the level it stands for, ending at the key's base node, which is reachable
\* from the base sentinel.
C16_TowersContiguous ==
    \A l \in Levels : \A n \in SeqSet(LevelNodes(l)) :
        LET down == Down(n)
        IN  /\ Len(down) = l
            /\ \A j \in 1..l :
                  /\ down[j] \in SeqSet(LevelNodes(l - j + 1))
                  /\ value[down[j]].key = value[n].key
            /\ down[l] \notin DOMAIN below
            /\ \A j \in 1..l : (l - j + 1) \in LevelsOf(value[n].key)

\* a tower of two levels stands between the sentinels after a removal
C16_Witness ==
    /\ Len(sentinels) > 1
    /\ LevelNodes(2) # <<>>
    /\ size = 1
    /\ last.op = "remove"
    /\ last.res.err = "none"

\* the calls that end in a successful remove
Removed(l) == l.op \in {"remove", "shift", "pop", "delitem"} /\ l.res.err = "none"
\* the node before n in its level
PredIn(l, n) == CHOOSE p \in DOMAIN next : next[p] = n /\ (p = sentinels[l] \/ p \in SeqSet(LevelNodes(l)))

\* C17: after a successful remove(k) no node carrying key k is reachable by
\* forward links from the sentinel of any level, whatever the height of k's
\* tower and whether or not k was the smallest; at every level k occupied
\* its former predecessor is linked to its former successor.
C17_RemoveUnlinksAll ==
    [][Removed(last') =>
          LET k == last'.res.val.key
          IN  /\ \A l \in Levels : \A n \in SeqSet(LevelNodes(l)') : value'[n].key # k
              /\ \A l \in LevelsOf(k) : \A n \in NodesOfKey(l, k) :
                    next'[PredIn(l, n)] = next[n]]_vars

\* a tower of two levels that was not the smallest element has been removed
C17_Witness ==
    /\ last.op = "remove"
    /\ last.res.err = "none"
    /\ size = 1
    /\ Len(sentinels) > 1
    /\ LevelNodes(2) = <<>>
    /\ Iter[1].key < last.res.val.key

\* C18: a successful remove(k) changes only the forward link of k's
\* predecessor at each level of k's tower, the backward link of k's base
\* successor and the size; the links of every other node, at levels inside
\* and above k's tower, are unchanged.
C18_RemoveFrame ==
    [][Removed(last') =>
          LET k == last'.res.val.key
              gone == UNION {NodesOfKey(l, k) : l \in Levels}
              preds == UNION {{PredIn(l, n) : n \in NodesOfKey(l, k)} : l \in Levels}
              succ == {next[n] : n \in NodesOfKey(1, k)}
          IN  /\ sentinels' = sentinels
              /\ size' = size - 1
              /\ DOMAIN next' = DOMAIN next \ gone
              /\ DOMAIN prev' = DOMAIN prev \ gone
              /\ DOMAIN below' = DOMAIN below \ gone
              /\ DOMAIN value' = DOMAIN value \ gone
              /\ \A n \in DOMAIN next' : n \notin preds => next'[n] = next[n]
              /\ \A n \in DOMAIN prev' : n \notin succ => prev'[n] = prev[n]
              /\ \A n \in DOMAIN below' : below'[n] = below[n]
              /\ \A n \in DOMAIN value' : value'[n] = value[n]]_vars

\* a base-only element was removed from under a level that a taller tower
\* still occupies
C18_Witness ==
    /\ last.op = "remove"
    /\ last.res.err = "none"
    /\ Len(sentinels) > 1
    /\ LevelNodes(2) # <<>>
    /\ value[LevelNodes(2)[1]].key < last.res.val.key

\* the height of the tower of key k: its topmost level, the base being 0
TowerHeight(k) == Cardinality(LevelsOf(k)) - 1

\* C20: an insert that adds an absent key calls the height generator exactly
\* once and the new tower spans exactly the levels 0..H, with
\* H = min(h, 8 + floor(log2(s + 1))) for the generator's value h and the
\* size s before the insertion; the towers of the other elements keep their
\* heights, so when h is within the cap the heights of the towers grow by
\* exactly the generator's output.
C20_TowerHeight ==
    [][(last'.op = "insert" /\ last'.pre.kind = "added") =>
          /\ Len(last'.pre.gen) = 1
          /\ \A k \in Keys, h \in TallHeights :
                (last'.arg[1].key = k /\ last'.pre.gen = <<h>>) =>
                   LET cap == 8 + FloorLog2(size + 1)
                       H == IF h <= cap THEN h ELSE cap
                   IN  /\ LevelsOf(k) = {}
                       /\ LevelsOf(k)' = 1..(H + 1)
                       /\ h <= cap => TowerHeight(k)' = h
                       /\ \A o \in LiveKeys : TowerHeight(o)' = TowerHeight(o)]_vars

\* the generator returned a height above the cap in force and the tower
\* stops at the cap, next to an element inserted before it
C20_Witness ==
    /\ last.op = "insert"
    /\ last.pre.kind = "added"
    /\ last.pre.size = 1
    /\ last.pre.gen[1] > 8 + FloorLog2(last.pre.size + 1)
    /\ TowerHeight(last.arg[1].key) = 8 + FloorLog2(last.pre.size + 1)

\* every object the container c refers to keeps its links and its value in
\* the next state, so c keeps its content too
Kept(c) ==
    \A n \in Reachable(c, c.sentinels) :
        /\ n \in DOMAIN next' /\ next'[n] = c.next[n]
        /\ n \in DOMAIN value' /\ value'[n] = c.value[n]
        /\ IF n \in DOMAIN c.prev
           THEN n \in DOMAIN prev' /\ prev'[n] = c.prev[n]
           ELSE n \notin DOMAIN prev'
        /\ IF n \in DOMAIN c.below
           THEN n \in DOMAIN below' /\ below'[n] = c.below[n]
           ELSE n \notin DOMAIN below'

\* each container is unchanged by a call made on the other one: its
\* sentinels, its size, its content and the links of its objects
Independent ==
    /\ (other # NoOther /\ last'.op \in {"insert", "remove", "clear"}) =>
          /\ other' = other
          /\ Kept(OtherView)
          /\ IterOf(OtherView)' = IterOf(OtherView)
    /\ last'.op \in {"other.insert", "other.remove", "other.clear"} =>
          /\ sentinels' = sentinels
          /\ size' = size
          /\ Kept(SelfView)
          /\ Iter' = Iter

\* C13: copy() returns a container that compares equal to the original, with
\* the same size and the same ascending sequence, and the two are
\* independent: a later insert, remove or clear on one of them leaves the
\* size, the content and the links of the other unchanged.
C13_CopyEqualIndependent ==
    [][/\ last'.op = "copy" =>
             /\ EqOp(SelfView, OtherView)'
             /\ EqOp(OtherView, SelfView)'
             /\ other'.size = size'
             /\ IterOf(OtherView)' = Iter'
       /\ Independent]_vars

\* copy() as the code has it: the copy is built with the default comparator,
\* so it equals the original when the original orders its elements the same
\* way or holds at most one; the two containers are independent in every case.
C13_CopyAsCoded ==
    [][/\ (last'.op = "copy" /\ (comparator = "operator" \/ size <= 1)) =>
             /\ EqOp(SelfView, OtherView)'
             /\ other'.size = size'
             /\ IterOf(OtherView)' = Iter'
       /\ (last'.op = "copy" /\ comparator # "operator" /\ size > 1) =>
             /\ ~EqOp(SelfView, OtherView)'
             /\ IterOf(OtherView)' = Reverse(Iter')
       /\ Independent]_vars

\* seq[start:stop:step] of a plain list, for a step >= 1
PySlice(seq, start, stop, step) ==
    LET n == Len(seq)
        lo == IF start = <<>> THEN 0
              ELSE IF start[1] < 0 THEN Max(start[1] + n, 0) ELSE Min(start[1], n)
        hi == IF stop = <<>> THEN n
              ELSE IF stop[1] < 0 THEN Max(stop[1] + n, 0) ELSE Min(stop[1], n)
        st == IF step = <<>> THEN 1 ELSE step[1]
        count == Cardinality({i \in lo..(hi - 1) : (i - lo) % st = 0})
    IN  [j \in 1..count |-> seq[lo + (j - 1) * st + 1]]

\* a call of list[start:stop:step] leaves the original as it was
SliceKeepsOriginal ==
    /\ sentinels' = sentinels
    /\ size' = size
    /\ Kept(SelfView)
    /\ Iter' = Iter

\* C14: for every start and stop (positive, negative, beyond either end or
\* omitted) and every step >= 1, list[start:stop:step] is a new container
\* whose ascending content is the same slice of the sorted content taken as
\* a plain list; a step <= 0 fails with ValueError; the original container is
\* unchanged.
C14_Slice ==
    [][last'.op = "slice" =>
          \A start \in Bounds, stop \in Bounds, step \in Steps :
              last'.arg = <<start, stop, step>> =>
                 /\ SliceKeepsOriginal
                 /\ IF step # <<>> /\ step[1] <= 0
                    THEN last'.res = Raise("ValueError") /\ other' = NoOther
                    ELSE /\ last'.res.err = "none"
                         /\ other' # NoOther
                         /\ other'.sentinels # sentinels
                         /\ other'.size = Len(PySlice(Iter, start, stop, step))
                         /\ IterOf(OtherView)' = PySlice(Iter, start, stop, step)]_vars

\* slicing as the code has it: the new container is built with the default
\* comparator, so it holds the elements of the slice in the default order,
\* which is the order of the slice when the original orders its elements the
\* same way and its reverse otherwise.
C14_SliceAsCoded ==
    [][last'.op = "slice" =>
          \A start \in Bounds, stop \in Bounds, step \in Steps :
              last'.arg = <<start, stop, step>> =>
                 /\ SliceKeepsOriginal
                 /\ IF step # <<>> /\ step[1] <= 0
                    THEN last'.res = Raise("ValueError") /\ other' = NoOther
                    ELSE /\ last'.res.err = "none"
                         /\ other' # NoOther
                         /\ other'.size = Len(PySlice(Iter, start, stop, step))
                         /\ IterOf(OtherView)' =
                               IF comparator = "operator"
                               THEN PySlice(Iter, start, stop, step)
                               ELSE Reverse(PySlice(Iter, start, stop, step))]_vars

\* C19: from the insert that creates an element until the remove that
\* deletes it, the set of levels the element occupies never changes, whatever
\* inserts (replacing inserts of the same key included) and removes of other
\* keys are made in between.
C19_LevelsFixed ==
    [][\A k \in Keys :
          (k \in LiveKeys /\ k \in LiveKeys') =>
             /\ LevelsOf(k) # {}
             /\ LevelsOf(k)' = LevelsOf(k)]_vars

\* an element standing on two levels has just been replaced by an insert of
\* an equal element, next to another element
C19_Witness ==
    /\ last.op = "insert"
    /\ last.pre.kind = "none"
    /\ last.arg[2]
    /\ value[next[sentinels[1]]] = last.arg[1]
    /\ LevelsOf(last.arg[1].key) = {1, 2}
    /\ size = 2

\* what a call does to the number of sentinel rows when it is not clear():
\* an insert of an absent key with capped height H leaves max(rows, H + 1)
\* rows, every other call leaves the rows it found
RowsKeptOrGrown ==
    IF last'.op = "insert" /\ last'.pre.kind = "added"
    THEN LET H == Min(last'.pre.gen[1], 8 + FloorLog2(size + 1))
         IN  Len(sentinels') = Max(Len(sentinels), H + 1)
    ELSE sentinels' = sentinels

\* C21 as stated: across any sequence of public operations the number of
\* sentinel rows never decreases; it grows to H + 1 when an insert generates
\* a capped height H above the top level, and no operation removes a row.
C21_LevelsNeverDecrease ==
    [][/\ Len(sentinels') >= Len(sentinels)
       /\ RowsKeptOrGrown]_vars

\* C21 amended: clear() leaves a single fresh sentinel row; across every
\* other public operation the number of sentinel rows never decreases, it
\* grows to H + 1 when an insert generates a capped height H above the top
\* level, and no removal takes a row away, even when no element reaches it
\* any more.
C21_LevelsGrowUntilClear ==
    [][IF last'.op = "clear"
       THEN Len(sentinels') = 1
       ELSE /\ Len(sentinels') >= Len(sentinels)
            /\ RowsKeptOrGrown]_vars

\* a removal has left the top row without any element
C21_Witness ==
    /\ last.op \in {"remove", "shift", "pop", "delitem"}
    /\ last.res.err = "none"
    /\ Len(sentinels) = 2
    /\ LevelNodes(2) = <<>>

\* the nodes of the base level met from its sentinel by backward links
RECURSIVE RowBack(_, _)
RowBack(n, s) == IF n = s THEN <<>> ELSE <<n>> \o RowBack(prev[n], s)

\* C22: in every reachable state the size counter equals the number of base
\* nodes reachable from the base sentinel by forward links, which equals the
\* number reachable by backward links.
C22_SizeCountsBaseNodes ==
    /\ size = Len(LevelNodes(1))
    /\ size = Len(RowBack(prev[sentinels[1]], sentinels[1]))

\* one element is left after a removal from a container of two
C22_Witness ==
    /\ last.op \in {"remove", "shift", "pop", "delitem"}
    /\ last.res.err = "none"
    /\ size = 1
    /\ Len(LevelNodes(1)) = 1

\* the last node of level l whose key is <= k, or the sentinel of the level
LastLeq(l, k) ==
    LET row == LevelNodes(l)
        upto == {i \in 1..Len(row) : value[row[i]].key <= k}
    IN  IF upto = {} THEN sentinels[l]
        ELSE row[CHOOSE i \in upto : \A j \in upto : j <= i]

\* C23: on every reachable structure and for every key k the trace of k
\* terminates with one entry per existing level, the top level first and the
\* base last; the entry of a level is the last node of the level whose key
\* is <= k, or the level's sentinel when there is none, so when k is present
\* the entry at every level of its tower is its own node.
C23_TraceShape ==
    \A v \in ProbeValues :
        LET path == Trace(v)
            top == Len(sentinels)
        IN  /\ Len(path) = top
            /\ \A j \in 1..top : path[j] = LastLeq(top - j + 1, v.key)
            /\ \A l \in LevelsOf(v.key) :
                  /\ path[top - l + 1] # sentinels[l]
                  /\ value[path[top - l + 1]].key = v.key

\* two rows, a tower of two levels followed by a base-only element: the
\* trace of the larger key stops on the tower at the top and on the
\* element's own node at the base
C23_Witness ==
    /\ Len(sentinels) = 2
    /\ size = 2
    /\ Len(LevelNodes(2)) = 1
    /\ LET top == LevelNodes(2)[1]
           path == Trace(value[prev[sentinels[1]]])
       IN  /\ value[top].key < value[prev[sentinels[1]]].key
           /\ path = <<top, prev[sentinels[1]]>>

\* the container is what the constructor leaves for an empty iterable: one
\* base sentinel linked to itself both ways, no other object, size 0
FreshlyConstructed ==
    /\ Len(sentinels) = 1
    /\ value[sentinels[1]] = SentinelValue
    /\ next[sentinels[1]] = sentinels[1]
    /\ prev[sentinels[1]] = sentinels[1]
    /\ DOMAIN next = {sentinels[1]}
    /\ DOMAIN prev = {sentinels[1]}
    /\ DOMAIN value = {sentinels[1]}
    /\ below = <<>>
    /\ size = 0

\* C26: clear() on any reachable container leaves size 0, empty ascending
\* and reversed iteration, no key as a member and a single self-linked base
\* sentinel row; the container is then in the state of a freshly constructed
\* empty one, so every later call behaves as on a freshly constructed one:
\* the call made next returns and leaves what it returns and leaves there.
C26_Clear ==
    [][/\ last'.op = "clear" =>
             /\ size' = 0
             /\ Iter' = <<>>
             /\ Reversed' = <<>>
             /\ \A v \in ProbeValues : ~ContainsOp(v)'
             /\ FreshlyConstructed'
       /\ last.op = "clear" =>
             /\ FreshlyConstructed
             /\ last'.op = "insert" =>
                   /\ last'.pre.kind = "added"
                   /\ Iter' = <<last'.arg[1]>>
                   /\ size' = 1
             /\ last'.op \in {"remove", "pop", "shift", "delitem"} =>
                   /\ last'.res.err # "none"
                   /\ FreshlyConstructed'
             /\ last'.op \in {"first", "last"} => last'.res = Nothing(last'.arg[1])
             /\ last'.op \in {"ceiling", "floor"} => last'.res = Nothing(last'.arg[3])
             /\ last'.op \in {"iter", "reversed", "range", "before", "after"} =>
                   last'.res = Ok(<<>>)
             /\ last'.op = "len" => last'.res = Ok(0)
             /\ last'.op = "contains" => last'.res = Ok(FALSE)
             /\ last'.op = "getitem" => last'.res = Raise("IndexError")]_vars

\* clear() has emptied a container of two elements
C26_Witness ==
    /\ last.op = "clear"
    /\ last.pre.kind = "cleared"
    /\ last.pre.size = 2
    /\ size = 0

\* C24: observable results do not depend on the generated heights: two
\* containers given the same calls, each with its own outcomes of the height
\* generator, return identical results for every query (len, membership,
\* iteration both ways, first, last, ceiling, floor, range, before, after,
\* index access) and every removal (remove, shift, pop, del), raise the same
\* errors, and compare equal to each other.
C24_HeightIndependent ==
    LET a == SelfView
        b == PairView
    IN  /\ a.size = b.size
        /\ EqOp(a, b)
        /\ EqOp(b, a)
        /\ IterOf(a) = IterOf(b)
        /\ ReversedOf(a) = ReversedOf(b)
        /\ ShiftOf(a).res = ShiftOf(b).res
        /\ \A default \in Defaults :
              /\ FirstOf(a, default) = FirstOf(b, default)
              /\ LastOf(a, default) = LastOf(b, default)
        /\ \A index \in Indexes :
              /\ GetItemOf(a, index) = GetItemOf(b, index)
              /\ DelItemOf(a, index).res = DelItemOf(b, index).res
        /\ PopOf(a, SentinelValue).res = PopOf(b, SentinelValue).res
        /\ \A v \in ProbeValues :
              /\ ContainsOf(a, v) = ContainsOf(b, v)
              /\ RemoveOf(a, v).res = RemoveOf(b, v).res
              /\ PopOf(a, v).res = PopOf(b, v).res
              /\ \A inclusive \in BOOLEAN :
                    /\ AfterOf(a, v, inclusive) = AfterOf(b, v, inclusive)
                    /\ BeforeOf(a, v, inclusive) = BeforeOf(b, v, inclusive)
                    /\ \A default \in Defaults :
                          /\ CeilingOf(a, v, inclusive, default) = CeilingOf(b, v, inclusive, default)
                          /\ FloorOf(a, v, inclusive, default) = FloorOf(b, v, inclusive, default)
              /\ \A end \in ProbeValues, is \in BOOLEAN, ie \in BOOLEAN :
                    RangeOpOf(a, v, end, is, ie) = RangeOpOf(b, v, end, is, ie)

\* after a removal the element left stands on two rows in the first
\* container and on the base row alone in the second, which has no other row
C24_Witness ==
    /\ other # NoOther
    /\ last.op \in {"remove", "shift", "pop", "delitem"}
    /\ size = 1
    /\ Len(sentinels) = 2
    /\ LevelNodes(2) # <<>>
    /\ Len(other.sentinels) = 1
    /\ other.size = 1

\* C25: an ascending lazy sequence (iteration, range, before, after) consumed
\* step by step with insert, remove and clear between its steps yields keys
\* that strictly increase in the container's ordering, never the same key
\* twice, and at most one value per key of the domain, after which its next
\* step ends it; this holds also when the node it stands on has been removed.
C25_LazyAscending ==
    LET out == cursor.out
    IN  /\ \A i \in 1..Len(out), j \in 1..Len(out) :
              i < j => /\ gt(out[j], out[i])
                       /\ out[i].key # out[j].key
        /\ Len(out) <= MaxKey
        /\ \A i \in 1..Len(out) : out[i] \in Elements

\* the generator, which has yielded two values, stands on a node that has
\* been removed, and the list holds a new node for every key
C25_Witness ==
    /\ cursor.state = "suspended"
    /\ Len(cursor.out) = 2
    /\ cursor.current \in Garbage
    /\ size = MaxKey

=============================================================================
